---- MODULE Spec2Model ----
(***************************************************************************)
(* A model of context.py: concatenate_files walks a directory tree and     *)
(* appends, for every file it finds, a header block and the file's text to *)
(* one output file; the __main__ block calls it once and reports.          *)
(*                                                                         *)
(* Text is modelled as a sequence of tokens (strings).  The output file    *)
(* has an on-disk content (disk) and the pending content of its writer's   *)
(* buffer (buf); the file system below the root is a snapshot taken at     *)
(* Init (tree, fs) that the run never changes, except for the output file  *)
(* itself when its path lies inside the root.                              *)
(***************************************************************************)
EXTENDS Naturals, Sequences, FiniteSets, TLC

VARIABLES
  tree,          \* what os.walk yields: a sequence of [root, files] records
  fs,            \* input files: path |-> [kind, data]
  outPath,       \* output_file
  sinkOpenable,  \* whether open(output_file, 'w') succeeds
  disk,          \* on-disk content of the output file, or NoFile
  buf,           \* text written to outfile and not yet flushed
  sinkOpen,      \* outfile is open
  inOpen,        \* the path infile is open on, or None
  pc,            \* position of the program
  di,            \* index of the os.walk triple being processed
  fi,            \* index of the file within that triple's files
  diag,          \* lines printed
  visited,       \* history: the file paths the inner loop has reached
  written,       \* history: the text passed to outfile.write in this run
  prior,         \* history: the output file's content when the run started
  run,           \* 1 for the first invocation, 2 for the second
  out1           \* history: the output file after the first invocation

vars == <<tree, fs, outPath, sinkOpenable, disk, buf, sinkOpen, inOpen, pc,
          di, fi, diag, visited, written, prior, run, out1>>

-----------------------------------------------------------------------------
(* Bounds of the model *)

\* deepest chain of directories below (and including) the root
MaxDepth == 3
\* longest text of an input file, in tokens
MaxLen == 1
\* size of the writer's buffer, in tokens (the library's is 8192 bytes)
BufSize == 8

-----------------------------------------------------------------------------
(* Values *)

\* the content standing for an output file that does not exist
NoFile == <<"<no file>">>
None == "<none>"
Root == "r"
SubDir == "d"
InFile == "f"
OutFile == "out"
OutsidePath == "o/out"
Alphabet == <<"x", "y", "z", "w">>
BadData == <<"bad">>
OldData == <<"old">>

\* separator='='*80
Sep == "================================================================================"

\* os.path.join(root, file)
Join(root, file) == root \o "/" \o file

RECURSIVE DirName(_)
\* the k-th directory os.walk yields, top-down: r, r/d, r/d/d, ...
DirName(k) == IF k = 1 THEN Root ELSE Join(DirName(k - 1), SubDir)

\* f"\n{separator}\nFILE: {file_path}\n{separator}\n"
Header(p, sep) == <<"\n", sep, "\n", "FILE: " \o p, "\n", sep, "\n">>

\* f"Failed to read {file_path}: {e}"
FailedMsg(p, e) == "Failed to read " \o p \o ": " \o e

\* f"All files concatenated into {output_file_path}"
DoneMsg(o) == "All files concatenated into " \o o

Contents == {SubSeq(Alphabet, 1, n) : n \in 0..MaxLen}

Attrs == {[kind |-> "ok", data |-> c] : c \in Contents}
           \cup {[kind |-> "openfail", data |-> BadData],
                 [kind |-> "decodefail", data |-> BadData]}

Absent == [kind |-> "absent", data |-> <<>>]

\* the files of directory k as the directory scan lists them
FilesOf(k, attr, outDir, outFirst) ==
  LET ins == IF attr[k] = Absent THEN <<>> ELSE <<InFile>>
      out == IF outDir = k THEN <<OutFile>> ELSE <<>>
  IN IF outFirst THEN out \o ins ELSE ins \o out

IsPrefix(s, t) == Len(s) <= Len(t) /\ SubSeq(t, 1, Len(s)) = s

-----------------------------------------------------------------------------
(* The state before the program starts *)

Init ==
  \E nd \in 1..MaxDepth :
  \E attr \in [1..nd -> Attrs \cup {Absent}] :
  \E outDir \in 0..nd :
  \E outFirst \in BOOLEAN :
  \E old \in {NoFile, OldData} :
    /\ (outDir = 0 \/ attr[outDir] = Absent) => ~outFirst
    /\ tree = [k \in 1..nd |->
                 [root |-> DirName(k), files |-> FilesOf(k, attr, outDir, outFirst)]]
    /\ fs = [p \in {Join(DirName(k), InFile) : k \in {j \in 1..nd : attr[j] # Absent}} |->
               attr[CHOOSE k \in 1..nd : Join(DirName(k), InFile) = p]]
    /\ outPath = IF outDir = 0 THEN OutsidePath ELSE Join(DirName(outDir), OutFile)
    /\ sinkOpenable \in BOOLEAN
    /\ disk = old
    /\ prior = old
    /\ buf = <<>>
    /\ sinkOpen = FALSE
    /\ inOpen = None
    /\ pc = "start"
    /\ di = 1
    /\ fi = 1
    /\ diag = <<>>
    /\ visited = <<>>
    /\ written = <<>>
    /\ run = 1
    /\ out1 = NoFile

-----------------------------------------------------------------------------
(* The program *)

CurFiles == tree[di].files
CurPath == Join(tree[di].root, CurFiles[fi])

\* what open(file_path, 'r') meets: the output file itself is an ordinary, existing file
KindOf(p) == IF p = outPath THEN "ok" ELSE fs[p].kind

\* what infile.read() returns: the output file is read from disk
DataOf(p) == IF p = outPath THEN disk ELSE fs[p].data

\* outfile.write(s): the text is buffered and flushed when the buffer is full
Write(s) ==
  /\ written' = written \o s
  /\ IF Len(buf \o s) >= BufSize
       THEN disk' = disk \o buf \o s /\ buf' = <<>>
       ELSE disk' = disk /\ buf' = buf \o s

\* leaving the with block of outfile: flush and close
CloseSink ==
  /\ disk' = disk \o buf
  /\ buf' = <<>>
  /\ sinkOpen' = FALSE

\* variant of OpenSink: the file is opened in mode 'a', which keeps what it holds
OpenSink_Append ==
  /\ pc = "start"
  /\ sinkOpenable
  /\ disk' = IF disk = NoFile THEN <<>> ELSE disk
  /\ buf' = <<>>
  /\ written' = <<>>
  /\ sinkOpen' = TRUE
  /\ pc' = "walk"
  /\ di' = 1
  /\ fi' = 1
  /\ UNCHANGED <<tree, fs, outPath, sinkOpenable, inOpen, diag, visited, prior, run, out1>>

\* line 4: open(output_file, 'w') creates or truncates the file
OpenSink ==
  /\ pc = "start"
  /\ sinkOpenable
  /\ disk' = <<>>
  /\ buf' = <<>>
  /\ written' = <<>>
  /\ sinkOpen' = TRUE
  /\ pc' = "walk"
  /\ di' = 1
  /\ fi' = 1
  /\ UNCHANGED <<tree, fs, outPath, sinkOpenable, inOpen, diag, visited, prior, run, out1>>

\* variant of OpenSinkFail: the error of open is swallowed and the caller goes on
OpenSinkFail_Swallowed ==
  /\ pc = "start"
  /\ ~sinkOpenable
  /\ pc' = "closed"
  /\ UNCHANGED <<tree, fs, outPath, sinkOpenable, disk, buf, sinkOpen, inOpen,
                 di, fi, diag, visited, written, prior, run, out1>>

\* line 4: open(output_file, 'w') raises; nothing catches it
OpenSinkFail ==
  /\ pc = "start"
  /\ ~sinkOpenable
  /\ pc' = "crashed"
  /\ UNCHANGED <<tree, fs, outPath, sinkOpenable, disk, buf, sinkOpen, inOpen,
                 di, fi, diag, visited, written, prior, run, out1>>

\* line 5: the files of this triple are exhausted, os.walk yields the next one
NextDir ==
  /\ pc = "walk"
  /\ fi > Len(CurFiles)
  /\ di < Len(tree)
  /\ di' = di + 1
  /\ fi' = 1
  /\ UNCHANGED <<tree, fs, outPath, sinkOpenable, disk, buf, sinkOpen, inOpen, pc,
                 diag, visited, written, prior, run, out1>>

\* lines 7-9: open(file_path, 'r') succeeds
OpenInput ==
  /\ pc = "walk"
  /\ fi <= Len(CurFiles)
  /\ KindOf(CurPath) # "openfail"
  /\ inOpen' = CurPath
  /\ visited' = Append(visited, CurPath)
  /\ pc' = "opened"
  /\ UNCHANGED <<tree, fs, outPath, sinkOpenable, disk, buf, sinkOpen,
                 di, fi, diag, written, prior, run, out1>>

\* variant of OpenInputFail: the try block encloses the loops, so the handler ends the traversal
OpenInputFail_EndsTraversal ==
  /\ pc = "walk"
  /\ fi <= Len(CurFiles)
  /\ KindOf(CurPath) = "openfail"
  /\ visited' = Append(visited, CurPath)
  /\ diag' = Append(diag, FailedMsg(CurPath, "PermissionError"))
  /\ di' = Len(tree)
  /\ fi' = Len(tree[Len(tree)].files) + 1
  /\ UNCHANGED <<tree, fs, outPath, sinkOpenable, disk, buf, sinkOpen, inOpen, pc,
                 written, prior, run, out1>>

\* lines 7-9, 13-14: open(file_path, 'r') raises, the handler prints and the loop goes on
OpenInputFail ==
  /\ pc = "walk"
  /\ fi <= Len(CurFiles)
  /\ KindOf(CurPath) = "openfail"
  /\ visited' = Append(visited, CurPath)
  /\ diag' = Append(diag, FailedMsg(CurPath, "PermissionError"))
  /\ fi' = fi + 1
  /\ UNCHANGED <<tree, fs, outPath, sinkOpenable, disk, buf, sinkOpen, inOpen, pc,
                 di, written, prior, run, out1>>

\* line 11: the header is written as soon as the file is open
WriteHeader ==
  /\ pc = "opened"
  /\ Write(Header(inOpen, Sep))
  /\ pc' = "header"
  /\ UNCHANGED <<tree, fs, outPath, sinkOpenable, sinkOpen, inOpen,
                 di, fi, diag, visited, prior, run, out1>>

\* line 12: infile.read() returns the whole text, which is written; infile is closed
ReadOk ==
  /\ pc = "header"
  /\ KindOf(inOpen) = "ok"
  /\ Write(DataOf(inOpen))
  /\ inOpen' = None
  /\ fi' = fi + 1
  /\ pc' = "walk"
  /\ UNCHANGED <<tree, fs, outPath, sinkOpenable, sinkOpen,
                 di, diag, visited, prior, run, out1>>

\* variant of ReadFail: the handler takes the header it wrote back out of the output
ReadFail_Rollback ==
  /\ pc = "header"
  /\ KindOf(inOpen) = "decodefail"
  /\ diag' = Append(diag, FailedMsg(inOpen, "UnicodeDecodeError"))
  /\ disk' = SubSeq(disk \o buf, 1, Len(disk \o buf) - Len(Header(inOpen, Sep)))
  /\ buf' = <<>>
  /\ written' = SubSeq(written, 1, Len(written) - Len(Header(inOpen, Sep)))
  /\ inOpen' = None
  /\ fi' = fi + 1
  /\ pc' = "walk"
  /\ UNCHANGED <<tree, fs, outPath, sinkOpenable, sinkOpen,
                 di, visited, prior, run, out1>>

\* lines 12-14: infile.read() raises UnicodeDecodeError; infile is closed, the handler prints
ReadFail ==
  /\ pc = "header"
  /\ KindOf(inOpen) = "decodefail"
  /\ diag' = Append(diag, FailedMsg(inOpen, "UnicodeDecodeError"))
  /\ inOpen' = None
  /\ fi' = fi + 1
  /\ pc' = "walk"
  /\ UNCHANGED <<tree, fs, outPath, sinkOpenable, disk, buf, sinkOpen,
                 di, visited, written, prior, run, out1>>

\* line 5, end of the with block of line 4: os.walk is exhausted, outfile is closed
EndWalk ==
  /\ pc = "walk"
  /\ fi > Len(CurFiles)
  /\ di = Len(tree)
  /\ CloseSink
  /\ pc' = "closed"
  /\ UNCHANGED <<tree, fs, outPath, sinkOpenable, inOpen,
                 di, fi, diag, visited, written, prior, run, out1>>

\* line 20: concatenate_files has returned
Report ==
  /\ pc = "closed"
  /\ diag' = Append(diag, DoneMsg(outPath))
  /\ pc' = "done"
  /\ UNCHANGED <<tree, fs, outPath, sinkOpenable, disk, buf, sinkOpen, inOpen,
                 di, fi, visited, written, prior, run, out1>>

\* line 13: except Exception does not catch a KeyboardInterrupt raised during the
\* traversal; the inner with block closes infile on the way out
Interrupt ==
  /\ pc \in {"walk", "opened", "header"}
  /\ inOpen' = None
  /\ pc' = "unwind"
  /\ UNCHANGED <<tree, fs, outPath, sinkOpenable, disk, buf, sinkOpen,
                 di, fi, diag, visited, written, prior, run, out1>>

\* variant of CloseOnError: outfile is opened without a with block and stays open
CloseOnError_NoClose ==
  /\ pc = "unwind"
  /\ pc' = "crashed"
  /\ UNCHANGED <<tree, fs, outPath, sinkOpenable, disk, buf, sinkOpen, inOpen,
                 di, fi, diag, visited, written, prior, run, out1>>

\* line 4: the with block closes outfile while the error passes through it, and
\* the error ends the process before line 20
CloseOnError ==
  /\ pc = "unwind"
  /\ CloseSink
  /\ pc' = "crashed"
  /\ UNCHANGED <<tree, fs, outPath, sinkOpenable, inOpen,
                 di, fi, diag, visited, written, prior, run, out1>>

\* lines 16-20: the script is started again on the same tree
Rerun ==
  /\ pc = "done"
  /\ run = 1
  /\ run' = 2
  /\ out1' = disk
  /\ prior' = disk
  /\ diag' = <<>>
  /\ visited' = <<>>
  /\ pc' = "start"
  /\ UNCHANGED <<tree, fs, outPath, sinkOpenable, disk, buf, sinkOpen, inOpen,
                 di, fi, written>>

Next ==
  \/ OpenSink
  \/ OpenSinkFail
  \/ NextDir
  \/ OpenInput
  \/ OpenInputFail
  \/ WriteHeader
  \/ ReadOk
  \/ ReadFail
  \/ EndWalk
  \/ Report
  \/ Interrupt
  \/ CloseOnError
  \/ Rerun

Spec == Init /\ [][Next]_vars

\* the run as the interpreter executes it when nothing interrupts it from outside
NextRun ==
  \/ OpenSink
  \/ OpenSinkFail
  \/ NextDir
  \/ OpenInput
  \/ OpenInputFail
  \/ WriteHeader
  \/ ReadOk
  \/ ReadFail
  \/ EndWalk
  \/ Report
  \/ Rerun

\* a single-threaded, synchronous program: the next statement is always executed
LiveSpec == Init /\ [][NextRun]_vars /\ WF_vars(NextRun)

-----------------------------------------------------------------------------
(* Vocabulary of the properties *)

HeaderLen == Len(Header(Root, Sep))

\* where the header block naming p starts in text t
HeaderAt(t, p) ==
  {i \in 1..Len(t) : i + HeaderLen - 1 <= Len(t)
                     /\ SubSeq(t, i, i + HeaderLen - 1) = Header(p, Sep)}

Tokens(t) == {t[i] : i \in 1..Len(t)}

PathsOf(k) == [i \in 1..Len(tree[k].files) |-> Join(tree[k].root, tree[k].files[i])]

RECURSIVE WalkFrom(_)
WalkFrom(k) == IF k > Len(tree) THEN <<>> ELSE PathsOf(k) \o WalkFrom(k + 1)

\* every file path below the root, in the order of the traversal
TreePaths == WalkFrom(1)

IndexIn(seq, x) == CHOOSE i \in 1..Len(seq) : seq[i] = x

Failing == {p \in DOMAIN fs : fs[p].kind \in {"openfail", "decodefail"}}
Readable == {p \in DOMAIN fs : fs[p].kind = "ok"}

FailedLines(p) ==
  {i \in 1..Len(diag) : diag[i] \in {FailedMsg(p, e) : e \in {"PermissionError", "UnicodeDecodeError"}}}

AnyFailedLine ==
  \E i \in 1..Len(diag) : \E p \in Tokens(TreePaths) :
    diag[i] \in {FailedMsg(p, e) : e \in {"PermissionError", "UnicodeDecodeError"}}

OutInRoot == outPath \in Tokens(TreePaths)

\* the text of the output file as its writer sees it
Content == IF disk = NoFile THEN <<>> ELSE disk \o buf

-----------------------------------------------------------------------------
(* The claims *)

\* C1: at the end of a run the output holds, for a file whose open or whose
\* read/decode failed, neither a header block naming it nor any of its content.
C1_FailedFileLeavesNothing ==
  pc = "done" =>
    \A p \in Failing :
      /\ HeaderAt(disk, p) = {}
      /\ Tokens(fs[p].data) \cap Tokens(disk) = {}

\* C2: at the end of a run every readable file under the root was visited once
\* and has exactly one header block in the output, immediately followed by its
\* full contents; no block names a directory; the blocks are in traversal order.
C2_OneBlockPerReadableFile ==
  pc = "done" =>
    /\ \A p \in Readable :
         /\ Cardinality({i \in 1..Len(visited) : visited[i] = p}) = 1
         /\ Cardinality(HeaderAt(disk, p)) = 1
         /\ \A i \in HeaderAt(disk, p) :
              /\ i + HeaderLen - 1 + Len(fs[p].data) <= Len(disk)
              /\ SubSeq(disk, i + HeaderLen, i + HeaderLen - 1 + Len(fs[p].data)) = fs[p].data
    /\ \A k \in 1..Len(tree) : HeaderAt(disk, tree[k].root) = {}
    /\ \A p, q \in Readable :
         IndexIn(TreePaths, p) < IndexIn(TreePaths, q) =>
           \A i \in HeaderAt(disk, p) : \A j \in HeaderAt(disk, q) : i < j

\* C3: a file that cannot be opened or decoded never ends the run: when the run
\* is done every file of the traversal was reached, in order, each failing file
\* has exactly one "Failed to read" line naming it, and a run that has started
\* the traversal reaches the completion message.
C3_FailureNeverAborts ==
  /\ [](pc = "done" =>
          /\ visited = TreePaths
          /\ \A p \in Failing : Cardinality(FailedLines(p)) = 1
          /\ diag[Len(diag)] = DoneMsg(outPath))
  /\ [](pc = "walk" => <>(pc = "done"))

C3_Witness ==
  /\ pc = "done"
  /\ \E i \in 1..Len(visited) : i < Len(visited) /\ visited[i] \in Failing
  /\ \E p \in Failing : fs[p].kind = "decodefail"

\* C4: when the output file cannot be opened for writing, the run stops with
\* the error: no input file is reached or opened, nothing is printed (neither a
\* "Failed to read" line nor the completion message) and no file is held open.
C4_SinkOpenFailureAborts ==
  ~sinkOpenable =>
    /\ pc \in {"start", "crashed"}
    /\ visited = <<>>
    /\ inOpen = None
    /\ diag = <<>>
    /\ ~sinkOpen

C4_Witness == ~sinkOpenable /\ pc = "crashed" /\ TreePaths # <<>>

\* C5: after a completed run the output file holds exactly the text this run
\* wrote, and nothing of what the file held before.
C5_Truncation ==
  pc = "done" =>
    /\ disk = written
    /\ (run = 1 => Tokens(OldData) \cap Tokens(disk) = {})

C5_Witness ==
  /\ pc = "done"
  /\ prior = OldData
  /\ visited # <<>>
  /\ disk = <<>>

\* C6: a second run on the unchanged tree with the same output path leaves the
\* output file equal to what the first run left.
C6_RunTwiceSameOutput ==
  (run = 2 /\ pc = "done") => disk = out1

C6_Witness ==
  /\ run = 2
  /\ pc = "done"
  /\ OutInRoot
  /\ Readable # {}
  /\ Failing # {}

\* C7: when the root holds no file before the run, the completed run leaves an
\* existing, empty output file and prints no "Failed to read" line.
C7_EmptyTreeEmptyOutput ==
  (pc = "done" /\ run = 1 /\ DOMAIN fs = {} /\ (OutInRoot => prior = NoFile)) =>
    /\ disk = <<>>
    /\ disk # NoFile
    /\ ~AnyFailedLine

\* C8: the output file is closed on every exit path and before anything is
\* reported: it is closed (and flushed) once the traversal is left, whether
\* normally or by an error, and whenever the completion message is printed.
C8_SinkReleased ==
  /\ pc \in {"closed", "done", "crashed"} => (~sinkOpen /\ buf = <<>>)
  /\ (diag # <<>> /\ diag[Len(diag)] = DoneMsg(outPath)) => ~sinkOpen

C8_Witness ==
  /\ pc = "crashed"
  /\ sinkOpenable
  /\ written # <<>>
  /\ disk = written

\* C9: while the output file is open for writing the run never opens it for
\* reading, and no header block of the output names the output file.
C9_SinkNeverRead ==
  /\ sinkOpen => inOpen # outPath
  /\ pc = "done" => HeaderAt(disk, outPath) = {}

\* C10: after the truncation at open, every step leaves the output's text
\* unchanged or extends it at its end, on disk and as the writer sees it.
C10_AppendOnly ==
  [][pc # "start" => (IsPrefix(Content, Content') /\ (disk # NoFile => IsPrefix(disk, disk')))]_vars

C10_Witness ==
  /\ pc = "walk"
  /\ Content # <<>>
  /\ \E p \in Failing : Cardinality(FailedLines(p)) = 1

====
